---- MODULE Spec2Model ----
(***************************************************************************)
(* Phonebook: the in-memory directory (phonebook/model.py), the TXT        *)
(* storage (phonebook/storage.py) and the controller's handlers            *)
(* (phonebook/controller.py).                                              *)
(*                                                                         *)
(* A Python str is a sequence of one-character strings.  None is the       *)
(* one-element sequence <<"None">>, which is no str: "None" is not a       *)
(* character.                                                              *)
(***************************************************************************)
EXTENDS Integers, Sequences, FiniteSets, TLC

VARIABLES
    contacts,      \* Phonebook._contacts: the dict, as its entries in insertion order
    next_id,       \* Phonebook._next_id
    dirty,         \* Phonebook._dirty
    opened_path,   \* PhonebookController._opened_path (NoPath: None)
    fs,            \* the file system: path -> [kind, text]
    last,          \* the last call: its name, its arguments, its error, its result
    adds,          \* history: number of successful add calls while replaced is FALSE
    replaced,      \* history: replace_all was called
    deleted,       \* history: ids deleted since the last replace_all
    written,       \* history: id -> the contact last written for it (present ids)
    snapshot,      \* history: the directory's contacts at the last load or successful save
    mutated,       \* history: a successful add/update/delete since the last load or save
    pc,            \* where the program is: "idle" between calls (at the menu), inside a
                   \* save, "ended" after run returned, "raised" after an exception left
                   \* run, "killed" after the process was killed
    repo,          \* repository._state: the module's global dictionary
    repo_last      \* the last call of a function of the repository module: its
                   \* error, its result

vars == <<contacts, next_id, dirty, opened_path, fs, last, adds, replaced,
          deleted, written, snapshot, mutated, pc, repo, repo_last>>

----------------------------------------------------------------------------
(* Bounds of the model.                                                    *)

\* add is explored while the counter is at most MaxId
MaxId == 2
\* the storage round trip takes lists of at most MaxLoad contacts
MaxLoad == 2

----------------------------------------------------------------------------
(* Python str operations.                                                  *)

SP == " "
TAB == "\t"
LF == "\n"
CR == "\r"
None == <<"None">>
\* U+00B2, superscript two: str.isdigit holds of it, int() rejects it
SUP2 == "U+00B2"
\* U+0663, Arabic-Indic digit three: a decimal digit, so \d of a str pattern
\* matches it
AR3 == "U+0663"

\* the Cyrillic letters of the answers on Exit: U+0434, U+0414, U+0430, U+043D,
\* U+0435, U+0442
CYR_d == "U+0434"

CYR_D == "U+0414"

CYR_a == "U+0430"

CYR_n == "U+043D"

CYR_e == "U+0435"

CYR_t == "U+0442"

Digits == {"0", "1", "2", "3", "4", "5", "6", "7", "8", "9"}
\* str.isspace, on the characters of the model
Whitespace == {SP, TAB, LF, CR}

\* "x or ''" for an Optional[str]
OrEmpty(s) == IF s = None THEN <<>> ELSE s

RECURSIVE lstrip(_)
lstrip(s) == IF s # <<>> /\ Head(s) \in Whitespace THEN lstrip(Tail(s)) ELSE s

RECURSIVE rstrip(_)
rstrip(s) ==
    IF s # <<>> /\ s[Len(s)] \in Whitespace THEN rstrip(SubSeq(s, 1, Len(s) - 1)) ELSE s

\* str.strip()
strip(s) == rstrip(lstrip(s))

\* str.lower() of one character
LowerChar(ch) ==
    CASE ch = "A" -> "a"
      [] ch = "B" -> "b"
      [] ch = "T" -> "t"
      [] ch = "X" -> "x"
      [] ch = "Y" -> "y"
      [] ch = "E" -> "e"
      [] ch = "S" -> "s"
      [] ch = CYR_D -> CYR_d
      [] OTHER -> ch

\* str.lower()
lower(s) == [i \in 1..Len(s) |-> LowerChar(s[i])]

\* str.replace(old, new) for one-character old and new
replace(s, old, new) == [i \in 1..Len(s) |-> IF s[i] = old THEN new ELSE s[i]]

\* the code point order of the characters of the model
Ord(ch) ==
    CASE ch = TAB -> 9
      [] ch = LF -> 10
      [] ch = CR -> 13
      [] ch = SP -> 32
      [] ch = "(" -> 40
      [] ch = ")" -> 41
      [] ch = "+" -> 43
      [] ch = "-" -> 45
      [] ch = "." -> 46
      [] ch = "0" -> 48
      [] ch = "1" -> 49
      [] ch = "2" -> 50
      [] ch = "3" -> 51
      [] ch = "4" -> 52
      [] ch = "5" -> 53
      [] ch = "6" -> 54
      [] ch = "7" -> 55
      [] ch = "8" -> 56
      [] ch = "9" -> 57
      [] ch = "A" -> 65
      [] ch = "B" -> 66
      [] ch = "T" -> 84
      [] ch = "X" -> 88
      [] ch = "a" -> 97
      [] ch = "b" -> 98
      [] ch = "c" -> 99
      [] ch = "t" -> 116
      [] ch = "x" -> 120
      [] OTHER -> 127

\* s < t for two str (lexicographic by code point)
RECURSIVE StrLess(_, _)
StrLess(s, t) ==
    IF t = <<>> THEN FALSE
    ELSE IF s = <<>> THEN TRUE
    ELSE IF Ord(Head(s)) # Ord(Head(t)) THEN Ord(Head(s)) < Ord(Head(t))
    ELSE StrLess(Tail(s), Tail(t))

\* str.split(sep) for a one-character sep
RECURSIVE split(_, _)
split(s, sep) ==
    IF \A i \in 1..Len(s) : s[i] # sep THEN <<s>>
    ELSE LET k == CHOOSE i \in 1..Len(s) : s[i] = sep /\ \A j \in 1..(i - 1) : s[j] # sep
         IN  <<SubSeq(s, 1, k - 1)>> \o split(SubSeq(s, k + 1, Len(s)), sep)

\* str.splitlines(): LF, CR and CR LF end a line; no empty last line
RECURSIVE splitlines(_)
splitlines(s) ==
    IF s = <<>> THEN <<>>
    ELSE IF \A i \in 1..Len(s) : s[i] \notin {LF, CR} THEN <<s>>
    ELSE LET k == CHOOSE i \in 1..Len(s) :
                      s[i] \in {LF, CR} /\ \A j \in 1..(i - 1) : s[j] \notin {LF, CR}
             n == IF s[k] = CR /\ k < Len(s) /\ s[k + 1] = LF THEN k + 2 ELSE k + 1
         IN  <<SubSeq(s, 1, k - 1)>> \o splitlines(SubSeq(s, n, Len(s)))

\* sep.join(parts)
RECURSIVE join(_, _)
join(sep, parts) ==
    IF parts = <<>> THEN <<>>
    ELSE IF Len(parts) = 1 THEN parts[1]
    ELSE parts[1] \o sep \o join(sep, Tail(parts))

DigitChar(d) ==
    CASE d = 0 -> "0" [] d = 1 -> "1" [] d = 2 -> "2" [] d = 3 -> "3" [] d = 4 -> "4"
      [] d = 5 -> "5" [] d = 6 -> "6" [] d = 7 -> "7" [] d = 8 -> "8" [] d = 9 -> "9"

DigitVal(ch) == Ord(ch) - 48

RECURSIVE NatStr(_)
NatStr(n) == IF n < 10 THEN <<DigitChar(n)>> ELSE NatStr(n \div 10) \o <<DigitChar(n % 10)>>

\* f"{n}" for an int
IntStr(n) == IF n < 0 THEN <<"-">> \o NatStr(-n) ELSE NatStr(n)

RECURSIVE DigitsVal(_, _)
DigitsVal(s, acc) == IF s = <<>> THEN acc ELSE DigitsVal(Tail(s), 10 * acc + DigitVal(Head(s)))

\* int(s): surrounding whitespace, one optional sign, then one or more digits;
\* anything else raises ValueError (ok = FALSE)
ParseInt(s) ==
    LET t == strip(s)
        signed == t # <<>> /\ Head(t) \in {"+", "-"}
        body == IF signed THEN Tail(t) ELSE t
    IN  IF body # <<>> /\ \A i \in 1..Len(body) : body[i] \in Digits
        THEN [ok |-> TRUE,
              val |-> IF signed /\ Head(t) = "-" THEN -DigitsVal(body, 0)
                      ELSE DigitsVal(body, 0)]
        ELSE [ok |-> FALSE, val |-> 0]

----------------------------------------------------------------------------
(* phonebook/model.py: validation.                                         *)

\* \d of a str pattern: the ASCII digits and the other decimal digits
RegexDigits == Digits \cup {AR3}

PhoneTail == RegexDigits \cup {"-", SP, "(", ")"}

\* mutant: 4 or more characters after the first, "{4,}"
PhoneCore_four_or_more(s) ==
    /\ Len(s) >= 5
    /\ s[1] \in RegexDigits \cup {"+"}
    /\ \A i \in 2..Len(s) : s[i] \in PhoneTail

\* ^[+\d][\d\- ()]{5,} up to the end of s
PhoneCore(s) ==
    /\ Len(s) >= 6
    /\ s[1] \in RegexDigits \cup {"+"}
    /\ \A i \in 2..Len(s) : s[i] \in PhoneTail

\* _PHONE_REGEX.match(s): $ also matches before a final line feed
PHONE_REGEX_match(s) ==
    \/ PhoneCore(s)
    \/ s # <<>> /\ s[Len(s)] = LF /\ PhoneCore(SubSeq(s, 1, Len(s) - 1))

\* _validate_name: ok = FALSE is ValidationError
validate_name(name) ==
    LET name_clean == strip(OrEmpty(name))
    IN  [ok |-> name_clean # <<>>, val |-> name_clean]

\* _validate_phone: ok = FALSE is ValidationError
validate_phone(phone) ==
    LET phone_clean == strip(OrEmpty(phone))
    IN  [ok |-> PHONE_REGEX_match(phone_clean), val |-> phone_clean]

Contact(id, name, phone, comment) ==
    [id |-> id, name |-> name, phone |-> phone, comment |-> comment]

----------------------------------------------------------------------------
(* A Python dict: its entries [key, val] in insertion order.               *)

DictKeys(d) == {d[i].key : i \in 1..Len(d)}

DictHas(d, k) == k \in DictKeys(d)

DictIndex(d, k) == CHOOSE i \in 1..Len(d) : d[i].key = k

\* d[k]
DictGet(d, k) == d[DictIndex(d, k)].val

\* d.values()
DictValues(d) == [i \in 1..Len(d) |-> d[i].val]

\* d[k] = v: a present key keeps its place, a new key goes last
DictSet(d, k, v) ==
    IF DictHas(d, k) THEN [d EXCEPT ![DictIndex(d, k)] = [key |-> k, val |-> v]]
    ELSE Append(d, [key |-> k, val |-> v])

\* del d[k]
DictDel(d, k) ==
    LET i == DictIndex(d, k)
    IN  SubSeq(d, 1, i - 1) \o SubSeq(d, i + 1, Len(d))

\* {c.id: c for c in cs}
RECURSIVE DictById(_, _)
DictById(cs, d) ==
    IF cs = <<>> THEN d ELSE DictById(Tail(cs), DictSet(d, Head(cs).id, Head(cs)))

\* max(keys, default=0)
MaxKey(d) ==
    IF d = <<>> THEN 0 ELSE CHOOSE k \in DictKeys(d) : \A j \in DictKeys(d) : j <= k

----------------------------------------------------------------------------
(* phonebook/model.py: class Phonebook.  Each method is an operator on    *)
(* the object pb = [contacts, next_id, dirty] that yields the object      *)
(* after the call, the error raised (NoError: none) and the value         *)
(* returned, as a list of contacts (one contact: a list of one).          *)

NoError == "none"

Result(pb, err, ret) == [pb |-> pb, err |-> err, ret |-> ret]

\* Phonebook.__init__
NewPhonebook == [contacts |-> <<>>, next_id |-> 1, dirty |-> FALSE]

mark_clean(pb) == [pb EXCEPT !.dirty = FALSE]

\* mutant: a mutation is not flagged
mark_dirty_skipped(pb) == pb

mark_dirty(pb) == [pb EXCEPT !.dirty = TRUE]

\* mutant: the counter restarts after the number of contacts, not after the largest id
replace_all_counts(pb, cs) ==
    LET d == DictById(cs, <<>>)
    IN  mark_clean([pb EXCEPT !.contacts = d, !.next_id = Len(d) + 1])

\* mutant: the flag is left as it was
replace_all_keeps_flag(pb, cs) ==
    LET d == DictById(cs, <<>>)
    IN  [pb EXCEPT !.contacts = d, !.next_id = MaxKey(d) + 1]

replace_all(pb, cs) ==
    LET d == DictById(cs, <<>>)
    IN  mark_clean([pb EXCEPT !.contacts = d, !.next_id = MaxKey(d) + 1])

\* the sort key (c.name.lower(), c.id)
KeyLess(c1, c2) ==
    \/ StrLess(lower(c1.name), lower(c2.name))
    \/ lower(c1.name) = lower(c2.name) /\ c1.id < c2.id

\* one step of a stable insertion sort
RECURSIVE Insert(_, _)
Insert(sorted, c) ==
    IF sorted = <<>> THEN <<c>>
    ELSE IF KeyLess(c, Head(sorted)) THEN <<c>> \o sorted
    ELSE <<Head(sorted)>> \o Insert(Tail(sorted), c)

\* sorted(cs, key=lambda c: (c.name.lower(), c.id))
RECURSIVE Sorted(_)
Sorted(cs) ==
    IF cs = <<>> THEN <<>> ELSE Insert(Sorted(SubSeq(cs, 1, Len(cs) - 1)), cs[Len(cs)])

\* mutant: the contacts in the order of the mapping
list_unsorted(pb) == DictValues(pb.contacts)

\* Phonebook.list
list(pb) == Sorted(DictValues(pb.contacts))

\* mutant: the id is taken after the largest stored id, not from the counter
add_after_max(pb, name, phone, comment) ==
    LET n == validate_name(name)
        p == validate_phone(phone)
        contact == Contact(MaxKey(pb.contacts) + 1, n.val, p.val, strip(OrEmpty(comment)))
    IN  IF ~n.ok \/ ~p.ok THEN Result(pb, "ValidationError", <<>>)
        ELSE Result(mark_dirty([pb EXCEPT !.contacts = DictSet(@, contact.id, contact),
                                          !.next_id = contact.id + 1]),
                    NoError, <<contact>>)

\* mutant: the counter is consumed before the fields are validated
add_consumes_id(pb, name, phone, comment) ==
    LET n == validate_name(name)
        p == validate_phone(phone)
        contact == Contact(pb.next_id, n.val, p.val, strip(OrEmpty(comment)))
    IN  IF ~n.ok \/ ~p.ok
        THEN Result([pb EXCEPT !.next_id = @ + 1], "ValidationError", <<>>)
        ELSE Result(mark_dirty([pb EXCEPT !.contacts = DictSet(@, contact.id, contact),
                                          !.next_id = @ + 1]),
                    NoError, <<contact>>)

\* Phonebook.add
add(pb, name, phone, comment) ==
    LET n == validate_name(name)
        p == validate_phone(phone)
        contact == Contact(pb.next_id, n.val, p.val, strip(OrEmpty(comment)))
    IN  IF ~n.ok \/ ~p.ok THEN Result(pb, "ValidationError", <<>>)
        ELSE Result(mark_dirty([pb EXCEPT !.contacts = DictSet(@, contact.id, contact),
                                          !.next_id = @ + 1]),
                    NoError, <<contact>>)

\* Phonebook.get
get(pb, contact_id) ==
    IF ~DictHas(pb.contacts, contact_id) THEN Result(pb, "ContactNotFound", <<>>)
    ELSE Result(pb, NoError, <<DictGet(pb.contacts, contact_id)>>)

\* mutant: an empty comment keeps the stored one ("comment or existing.comment")
update_keeps_comment(pb, contact_id, name, phone, comment) ==
    LET found == get(pb, contact_id)
        existing == found.ret[1]
        n == IF name = None THEN [ok |-> TRUE, val |-> existing.name]
             ELSE validate_name(name)
        p == IF phone = None THEN [ok |-> TRUE, val |-> existing.phone]
             ELSE validate_phone(phone)
        new_comment == IF comment = None \/ comment = <<>> THEN existing.comment
                       ELSE strip(comment)
        updated == Contact(existing.id, n.val, p.val, new_comment)
    IN  IF found.err # NoError THEN found
        ELSE IF ~n.ok \/ ~p.ok THEN Result(pb, "ValidationError", <<>>)
        ELSE Result(mark_dirty([pb EXCEPT !.contacts = DictSet(@, existing.id, updated)]),
                    NoError, <<updated>>)

\* Phonebook.update
update(pb, contact_id, name, phone, comment) ==
    LET found == get(pb, contact_id)
        existing == found.ret[1]
        n == IF name = None THEN [ok |-> TRUE, val |-> existing.name]
             ELSE validate_name(name)
        p == IF phone = None THEN [ok |-> TRUE, val |-> existing.phone]
             ELSE validate_phone(phone)
        new_comment == IF comment = None THEN existing.comment ELSE strip(OrEmpty(comment))
        updated == Contact(existing.id, n.val, p.val, new_comment)
    IN  IF found.err # NoError THEN found
        ELSE IF ~n.ok \/ ~p.ok THEN Result(pb, "ValidationError", <<>>)
        ELSE Result(mark_dirty([pb EXCEPT !.contacts = DictSet(@, existing.id, updated)]),
                    NoError, <<updated>>)

\* mutant: an absent id still marks the directory dirty
delete_marks_dirty(pb, contact_id) ==
    IF DictHas(pb.contacts, contact_id)
    THEN Result(mark_dirty([pb EXCEPT !.contacts = DictDel(@, contact_id)]), NoError, <<>>)
    ELSE Result(mark_dirty(pb), "ContactNotFound", <<>>)

\* mutant: the entry is not removed
delete_keeps_entry(pb, contact_id) ==
    IF DictHas(pb.contacts, contact_id)
    THEN Result(mark_dirty(pb), NoError, <<>>)
    ELSE Result(pb, "ContactNotFound", <<>>)

\* mutant: a delete that empties the directory starts the ids again at 1
delete_resets_counter(pb, contact_id) ==
    IF DictHas(pb.contacts, contact_id)
    THEN LET rest == DictDel(pb.contacts, contact_id)
         IN  Result(mark_dirty([pb EXCEPT !.contacts = rest,
                                          !.next_id = IF rest = <<>> THEN 1 ELSE @]),
                    NoError, <<>>)
    ELSE Result(pb, "ContactNotFound", <<>>)

\* Phonebook.delete
delete(pb, contact_id) ==
    IF DictHas(pb.contacts, contact_id)
    THEN Result(mark_dirty([pb EXCEPT !.contacts = DictDel(@, contact_id)]), NoError, <<>>)
    ELSE Result(pb, "ContactNotFound", <<>>)

\* "q in s" for two str
Contains(q, s) ==
    \E i \in 0..(Len(s) - Len(q)) : SubSeq(s, i + 1, i + Len(q)) = q

\* mutant: only the name is searched
search_name_only(pb, query) ==
    LET q == lower(strip(OrEmpty(query)))
        Match(c) == Contains(q, lower(c.name))
    IN  IF q = <<>> THEN <<>> ELSE SelectSeq(DictValues(pb.contacts), Match)

\* Phonebook.search
search(pb, query) ==
    LET q == lower(strip(OrEmpty(query)))
        Match(c) == \/ Contains(q, lower(c.name))
                    \/ Contains(q, lower(c.phone))
                    \/ Contains(q, lower(c.comment))
    IN  IF q = <<>> THEN <<>> ELSE SelectSeq(DictValues(pb.contacts), Match)

\* mutant: one matching filter is enough
search_by_fields_any(pb, name, phone, comment) ==
    LET name_q == lower(strip(OrEmpty(name)))
        phone_q == lower(strip(OrEmpty(phone)))
        comment_q == lower(strip(OrEmpty(comment)))
        Match(c) == \/ name_q = <<>> /\ phone_q = <<>> /\ comment_q = <<>>
                    \/ name_q # <<>> /\ Contains(name_q, lower(c.name))
                    \/ phone_q # <<>> /\ Contains(phone_q, lower(c.phone))
                    \/ comment_q # <<>> /\ Contains(comment_q, lower(c.comment))
    IN  SelectSeq(DictValues(pb.contacts), Match)

\* Phonebook.search_by_fields
search_by_fields(pb, name, phone, comment) ==
    LET name_q == lower(strip(OrEmpty(name)))
        phone_q == lower(strip(OrEmpty(phone)))
        comment_q == lower(strip(OrEmpty(comment)))
        Match(c) == /\ name_q # <<>> => Contains(name_q, lower(c.name))
                    /\ phone_q # <<>> => Contains(phone_q, lower(c.phone))
                    /\ comment_q # <<>> => Contains(comment_q, lower(c.comment))
    IN  SelectSeq(DictValues(pb.contacts), Match)

----------------------------------------------------------------------------
(* phonebook/storage.py: class TxtStorage.  A path of the file system is   *)
(* absent, a directory, or a file with its text.                           *)

Absent == [kind |-> "absent", text |-> <<>>]

Directory == [kind |-> "dir", text |-> <<>>]

File(text) == [kind |-> "file", text |-> text]

\* one line of the file: f"{c.id}\t{name}\t{phone}\t{comment}"
SaveLine(c) ==
    IntStr(c.id) \o <<TAB>> \o replace(c.name, LF, SP) \o <<TAB>>
        \o replace(c.phone, LF, SP) \o <<TAB>> \o replace(c.comment, LF, SP)

\* "\n".join(lines) + ("\n" if lines else "")
SaveText(cs) ==
    LET lines == [i \in 1..Len(cs) |-> SaveLine(cs[i])]
    IN  join(<<LF>>, lines) \o (IF lines # <<>> THEN <<LF>> ELSE <<>>)

\* mutant: the contacts are written in sorted order, not in the order given
save_sorted(file, cs, io) ==
    IF io = "MkdirError" THEN [err |-> "OSError", file |-> file]
    ELSE IF io # "ok" \/ file.kind = "dir" THEN [err |-> "StorageError", file |-> file]
    ELSE [err |-> NoError, file |-> File(SaveText(Sorted(cs)))]

\* mutant: a failed write is not reported
save_swallows_error(file, cs, io) ==
    IF io = "MkdirError" THEN [err |-> "OSError", file |-> file]
    ELSE IF io # "ok" \/ file.kind = "dir" THEN [err |-> NoError, file |-> file]
    ELSE [err |-> NoError, file |-> File(SaveText(cs))]

\* TxtStorage.save on the target file, as one step: io is "ok", "OSError" (the
\* write or the replace fails, wrapped as StorageError) or "MkdirError" (mkdir in
\* _ensure_parent fails: its OSError is raised as it is); replacing a directory
\* by the temporary file fails too.
save(file, cs, io) ==
    IF io = "MkdirError" THEN [err |-> "OSError", file |-> file]
    ELSE IF io # "ok" \/ file.kind = "dir" THEN [err |-> "StorageError", file |-> file]
    ELSE [err |-> NoError, file |-> File(SaveText(cs))]

\* the fields of a line, padded to 4: parts + [""] * (4 - len(parts))
LineParts(line) ==
    LET parts == split(line, TAB)
    IN  IF Len(parts) < 4 THEN parts \o [i \in 1..(4 - Len(parts)) |-> <<>>] ELSE parts

\* mutant: a line whose id does not parse is skipped, the other lines are loaded
RECURSIVE LoadLines_skips_bad_id(_, _)
LoadLines_skips_bad_id(lines, acc) ==
    IF lines = <<>> THEN [err |-> NoError, ret |-> acc]
    ELSE IF strip(Head(lines)) = <<>> THEN LoadLines_skips_bad_id(Tail(lines), acc)
    ELSE LET parts == LineParts(Head(lines))
             cid == ParseInt(parts[1])
         IN  IF ~cid.ok THEN LoadLines_skips_bad_id(Tail(lines), acc)
             ELSE LoadLines_skips_bad_id(Tail(lines),
                            Append(acc, Contact(cid.val, strip(parts[2]), strip(parts[3]),
                                                strip(parts[4]))))

\* the loop of TxtStorage.load over the lines: a ValueError of int() ends it
RECURSIVE LoadLines(_, _)
LoadLines(lines, acc) ==
    IF lines = <<>> THEN [err |-> NoError, ret |-> acc]
    ELSE IF strip(Head(lines)) = <<>> THEN LoadLines(Tail(lines), acc)
    ELSE LET parts == LineParts(Head(lines))
             cid == ParseInt(parts[1])
         IN  IF ~cid.ok THEN [err |-> "StorageError", ret |-> <<>>]
             ELSE LoadLines(Tail(lines),
                            Append(acc, Contact(cid.val, strip(parts[2]), strip(parts[3]),
                                                strip(parts[4]))))

\* mutant: a path that does not exist is an error
load_absent_is_error(file, io) ==
    IF file.kind # "file" THEN [err |-> "StorageError", ret |-> <<>>]
    ELSE IF io # "ok" THEN [err |-> "StorageError", ret |-> <<>>]
    ELSE LoadLines(splitlines(file.text), <<>>)

\* TxtStorage.load: io is "ok" or "OSError" (read_text fails)
load(file, io) ==
    IF file.kind = "absent" THEN [err |-> NoError, ret |-> <<>>]
    ELSE IF file.kind # "file" THEN [err |-> "StorageError", ret |-> <<>>]
    ELSE IF io # "ok" THEN [err |-> "StorageError", ret |-> <<>>]
    ELSE LoadLines(splitlines(file.text), <<>>)

----------------------------------------------------------------------------
(* phonebook/repository.py: the variant that keeps the directory in the    *)
(* module's global dictionary _state.  A contact is a dict with the keys   *)
(* of Contact; a function returns [state, err, ret], err "ValueError" when *)
(* _make_contact raises, ret <<>> for None.                                *)

\* _is_valid_phone
is_valid_phone(phone) == phone # <<>> /\ PHONE_REGEX_match(phone)

\* _make_contact: ok = FALSE is ValueError
make_contact(contact_id, name, phone, comment) ==
    LET name_clean == strip(OrEmpty(name))
        phone_str == strip(OrEmpty(phone))
        comment_clean == strip(OrEmpty(comment))
    IN  [ok |-> name_clean # <<>> /\ is_valid_phone(phone_str),
         val |-> [id |-> contact_id, name |-> name_clean, phone |-> phone_str,
                  comment |-> comment_clean]]

\* _state as the module is imported
NewRepository == [contacts |-> <<>>, next_id |-> 1, dirty |-> FALSE, opened_file |-> None]

RepoResult(state, err, ret) == [state |-> state, err |-> err, ret |-> ret]

\* list_contacts
list_contacts(state) == Sorted(DictValues(state.contacts))

\* add_contact
add_contact(state, name, phone, comment) ==
    LET cid == state.next_id
        contact == make_contact(cid, name, phone, comment)
    IN  IF ~contact.ok THEN RepoResult(state, "ValueError", <<>>)
        ELSE RepoResult([state EXCEPT !.contacts = DictSet(@, cid, contact.val),
                                      !.next_id = cid + 1,
                                      !.dirty = TRUE],
                        NoError, <<contact.val>>)

\* update_contact: None (ret = <<>>) for an id that is absent
update_contact(state, contact_id, name, phone, comment) ==
    IF ~DictHas(state.contacts, contact_id) THEN RepoResult(state, NoError, <<>>)
    ELSE LET existing == DictGet(state.contacts, contact_id)
             new_name == IF name = None THEN existing.name ELSE name
             new_phone == IF phone = None THEN existing.phone ELSE phone
             new_comment == IF comment = None THEN existing.comment ELSE comment
             updated == make_contact(existing.id, new_name, new_phone, new_comment)
         IN  IF ~updated.ok THEN RepoResult(state, "ValueError", <<>>)
             ELSE RepoResult([state EXCEPT !.contacts = DictSet(@, contact_id, updated.val),
                                           !.dirty = TRUE],
                             NoError, <<updated.val>>)

\* mutant: an absent id still marks the directory dirty
delete_contact_marks_dirty(state, contact_id) ==
    IF DictHas(state.contacts, contact_id)
    THEN RepoResult([state EXCEPT !.contacts = DictDel(@, contact_id), !.dirty = TRUE],
                    NoError, <<"True">>)
    ELSE RepoResult([state EXCEPT !.dirty = TRUE], NoError, <<"False">>)

\* delete_contact: True or False
delete_contact(state, contact_id) ==
    IF DictHas(state.contacts, contact_id)
    THEN RepoResult([state EXCEPT !.contacts = DictDel(@, contact_id), !.dirty = TRUE],
                    NoError, <<"True">>)
    ELSE RepoResult(state, NoError, <<"False">>)

----------------------------------------------------------------------------
(* The state as a Phonebook object, and the history of the calls.          *)

PB == [contacts |-> contacts, next_id |-> next_id, dirty |-> dirty]

SetPB(pb) ==
    /\ contacts' = pb.contacts
    /\ next_id' = pb.next_id
    /\ dirty' = pb.dirty

\* a call of the Phonebook, the storage or the controller: the repository
\* module is another program, its state is not touched
Called(op, id, args, err, ret) ==
    /\ last' = [op |-> op, id |-> id, args |-> args, err |-> err, ret |-> ret]
    /\ UNCHANGED <<repo, repo_last>>

NoPath == [stem |-> "", suffix |-> None]

IdsOf(cs) == {cs[i].id : i \in 1..Len(cs)}

\* the contact of cs that comes last among those with the id
LastWithId(cs, id) ==
    cs[CHOOSE i \in 1..Len(cs) : cs[i].id = id /\ \A j \in (i + 1)..Len(cs) : cs[j].id # id]

Wrote(c) == written' = [i \in DOMAIN written \cup {c.id} |-> IF i = c.id THEN c ELSE written[i]]

Unwrote(id) == written' = [i \in DOMAIN written \ {id} |-> written[i]]

----------------------------------------------------------------------------
(* Calls of the Phonebook's methods, with arguments from small sets.       *)

P1 == <<"+", "1", "2", "3", "4", "5">>

P2 == <<SP, "8", "(", "1", ")", "-", "2", SP>>

\* add(name, phone, comment): valid ones, each kind of invalid name and phone
AddArgs ==
    {<<<<"a">>, P1, <<>>>>, <<<<SP, "B", SP>>, P2, <<SP, "c", SP>>>>,
     <<<<>>, P1, <<>>>>, <<<<SP>>, P1, <<>>>>,
     <<<<"a">>, None, <<>>>>, <<<<"a">>, <<"1", "2", "3", "4">>, <<>>>>}

\* update(id, name=, phone=, comment=): each field alone, none, invalid ones
UpdateArgs ==
    {<<None, None, None>>, <<<<SP, "B", SP>>, None, None>>,
     <<None, P2, None>>, <<None, None, <<>>>>, <<None, None, <<SP, "c", SP>>>>,
     <<<<SP>>, None, None>>, <<None, <<"1", "2", "3", "4">>, None>>}

IdArgs == 0..MaxId

QueryArgs == {<<SP>>, <<"A">>}

\* replace_all is called with any list of contacts, no validation applies:
\* among these are repeated ids and ids out of order
C1a == Contact(1, <<"a">>, P1, <<>>)

C1B == Contact(1, <<"B">>, strip(P2), <<"c">>)

C2a == Contact(2, <<"a">>, P1, <<>>)

LoadLists ==
    {<<>>, <<C1a>>, <<C2a>>, <<C1a, C2a>>, <<C2a, C1B>>, <<C1a, C1B>>, <<C1B, C1a>>,
     <<C2a, C2a>>}

CallReplaceAll(cs) ==
    /\ SetPB(replace_all(PB, cs))
    /\ Called("replace_all", 0, <<>>, NoError, <<>>)
    /\ replaced' = TRUE
    /\ adds' = 0
    /\ deleted' = {}
    /\ written' = [i \in IdsOf(cs) |-> LastWithId(cs, i)]
    /\ UNCHANGED <<pc, opened_path, fs, snapshot, mutated>>

CallAdd(name, phone, comment) ==
    LET r == add(PB, name, phone, comment)
    IN  /\ next_id <= MaxId
        /\ SetPB(r.pb)
        /\ Called("add", 0, <<name, phone, comment>>, r.err, r.ret)
        /\ IF r.err = NoError
           THEN /\ adds' = IF replaced THEN 0 ELSE adds + 1
                /\ Wrote(r.ret[1])
           ELSE UNCHANGED <<adds, written>>
        /\ UNCHANGED <<pc, opened_path, fs, replaced, deleted, snapshot, mutated>>

CallUpdate(id, name, phone, comment) ==
    LET r == update(PB, id, name, phone, comment)
    IN  /\ SetPB(r.pb)
        /\ Called("update", id, <<name, phone, comment>>, r.err, r.ret)
        /\ IF r.err = NoError THEN Wrote(r.ret[1]) ELSE UNCHANGED written
        /\ UNCHANGED <<pc, opened_path, fs, adds, replaced, deleted, snapshot, mutated>>

CallDelete(id) ==
    LET r == delete(PB, id)
    IN  /\ SetPB(r.pb)
        /\ Called("delete", id, <<>>, r.err, r.ret)
        /\ IF r.err = NoError
           THEN /\ deleted' = deleted \cup {id}
                /\ Unwrote(id)
           ELSE UNCHANGED <<deleted, written>>
        /\ UNCHANGED <<pc, opened_path, fs, adds, replaced, snapshot, mutated>>

CallGet(id) ==
    LET r == get(PB, id)
    IN  /\ SetPB(r.pb)
        /\ Called("get", id, <<>>, r.err, r.ret)
        /\ UNCHANGED <<pc, opened_path, fs, adds, replaced, deleted, written,
                       snapshot, mutated>>

CallList ==
    /\ Called("list", 0, <<>>, NoError, list(PB))
    /\ UNCHANGED <<pc, contacts, next_id, dirty, opened_path, fs, adds, replaced, deleted,
                   written, snapshot, mutated>>

CallSearch(query) ==
    /\ Called("search", 0, <<query>>, NoError, search(PB, query))
    /\ UNCHANGED <<pc, contacts, next_id, dirty, opened_path, fs, adds, replaced, deleted,
                   written, snapshot, mutated>>

Init ==
    /\ contacts = NewPhonebook.contacts
    /\ next_id = NewPhonebook.next_id
    /\ dirty = NewPhonebook.dirty
    /\ opened_path = NoPath
    /\ fs = <<>>
    /\ last = [op |-> "init", id |-> 0, args |-> <<>>, err |-> NoError, ret |-> <<>>]
    /\ adds = 0
    /\ replaced = FALSE
    /\ deleted = {}
    /\ written = <<>>
    /\ snapshot = <<>>
    /\ mutated = FALSE
    /\ pc = "idle"
    /\ repo = NewRepository
    /\ repo_last = [err |-> NoError, ret |-> <<>>]

Next ==
    \/ \E cs \in LoadLists : CallReplaceAll(cs)
    \/ \E a \in AddArgs : CallAdd(a[1], a[2], a[3])
    \/ \E id \in IdArgs, a \in UpdateArgs : CallUpdate(id, a[1], a[2], a[3])
    \/ \E id \in IdArgs : CallDelete(id)
    \/ \E id \in IdArgs : CallGet(id)
    \/ CallList
    \/ \E q \in QueryArgs : CallSearch(q)

Spec == Init /\ [][Next]_vars

----------------------------------------------------------------------------
(* phonebook/controller.py: the handlers of PhonebookController, one       *)
(* action each.  What the user types is an argument; a path is given as    *)
(* the resolved Path, its stem and its suffix.  io is the outcome of the   *)
(* file operations of the handler, one of IoArgs.                          *)

BOOK == [stem |-> "book", suffix |-> <<".", "t", "x", "t">>]

\* a directory whose name ends in .txt
FOLDER == [stem |-> "folder", suffix |-> <<".", "t", "x", "t">>]

TABLE == [stem |-> "table", suffix |-> <<".", "c", "s", "v">>]

PathArgs == {BOOK, FOLDER, TABLE}

FilePaths == {BOOK, FOLDER}

\* the outcome of the file operations of a load or a save: all succeed, the read
\* or the write raises OSError, or (in a save) creating the parent directory does
IoArgs == {"ok", "OSError", "MkdirError"}

\* path.suffix.lower() != ".txt"
NotTxt(path) == lower(path.suffix) # <<".", "t", "x", "t">>

\* the errors "except PhonebookError" catches: exceptions.py is not among the
\* sources, the handlers and tests use these three as PhonebookError
PhonebookErrors == {"ValidationError", "ContactNotFound", "StorageError"}

\* what a handler reports itself, without an exception
Reported == {NoError, "NotTxt", "BadId"}

\* the try statement of run around action(): PhonebookError and
\* KeyboardInterrupt are caught and the loop goes on, anything else leaves run
AfterAction(err) ==
    pc' = IF err \in Reported \cup PhonebookErrors \cup {"KeyboardInterrupt"}
          THEN "idle" ELSE "raised"

\* str.isdigit, on the characters of the model
isdigit(str) == str # <<>> /\ \A i \in 1..Len(str) : str[i] \in Digits \cup {SUP2}

\* "" typed for a field of _edit means None
EmptyAsNone(str) == IF str = <<>> THEN None ELSE str

\* history of the handlers: what was loaded or saved, and that nothing changed since
Saved(pb) == snapshot' = list(pb) /\ mutated' = FALSE

\* the history of the Phonebook's own calls is not kept for the handlers
NoCallHistory == UNCHANGED <<adds, replaced, deleted, written>>

\* mutant: the path is bound before the file is loaded
OpenEffect_binds_first(path, io) ==
    IF NotTxt(path)
    THEN UNCHANGED <<contacts, next_id, dirty, opened_path, fs, snapshot, mutated>>
    ELSE LET r == load(fs[path], io)
             pb == replace_all(PB, r.ret)
         IN  /\ opened_path' = path
             /\ IF r.err = NoError
                THEN SetPB(pb) /\ Saved(pb)
                ELSE UNCHANGED <<contacts, next_id, dirty, snapshot, mutated>>
             /\ UNCHANGED fs

\* the error _open ends with
OpenErr(path, io) == IF NotTxt(path) THEN "NotTxt" ELSE load(fs[path], io).err

\* what _open does to the directory, the bound path and the files
OpenEffect(path, io) ==
    IF NotTxt(path)
    THEN UNCHANGED <<contacts, next_id, dirty, opened_path, fs, snapshot, mutated>>
    ELSE LET r == load(fs[path], io)
             pb == replace_all(PB, r.ret)
         IN  /\ IF r.err = NoError
                THEN /\ SetPB(pb)
                     /\ opened_path' = path
                     /\ Saved(pb)
                ELSE UNCHANGED <<contacts, next_id, dirty, opened_path, snapshot,
                                 mutated>>
             /\ UNCHANGED fs

\* PhonebookController._open
Open(path, io) ==
    /\ pc = "idle"
    /\ io # "MkdirError"
    /\ OpenEffect(path, io)
    /\ Called("_open", 0, <<path>>, OpenErr(path, io), <<>>)
    /\ AfterAction(OpenErr(path, io))
    /\ NoCallHistory

\* the path _save writes to: the bound one, or what the user types when none is
SavePath(path) == IF opened_path = NoPath THEN path ELSE opened_path

\* the error _save ends with
SaveErr(path, io) ==
    IF NotTxt(SavePath(path)) THEN "NotTxt"
    ELSE save(fs[SavePath(path)], list(PB), io).err

\* what _save does to the directory, the bound path and the files
SaveEffect(path, io) ==
    LET bound == SavePath(path)
    IN  /\ opened_path' = bound
        /\ IF NotTxt(bound)
           THEN UNCHANGED <<contacts, next_id, dirty, fs, snapshot, mutated>>
           ELSE LET r == save(fs[bound], list(PB), io)
                IN  /\ fs' = [fs EXCEPT ![bound] = r.file]
                    /\ IF r.err = NoError
                       THEN SetPB(mark_clean(PB)) /\ Saved(PB)
                       ELSE UNCHANGED <<contacts, next_id, dirty, snapshot, mutated>>

\* PhonebookController._save: path is what the user types when no path is bound
Save(path, io) ==
    /\ pc = "idle"
    /\ SaveEffect(path, io)
    /\ Called("_save", 0, <<>>, SaveErr(path, io), <<>>)
    /\ AfterAction(SaveErr(path, io))
    /\ NoCallHistory

\* PhonebookController._list
List ==
    /\ pc = "idle"
    /\ Called("_list", 0, <<>>, NoError, list(PB))
    /\ pc' = "idle"
    /\ UNCHANGED <<contacts, next_id, dirty, opened_path, fs, snapshot, mutated>>
    /\ NoCallHistory

\* PhonebookController._find: the field filters are asked when the query is empty
Find(q, name, phone, comment) ==
    LET results == IF strip(q) # <<>> THEN search(PB, strip(q))
                   ELSE search_by_fields(PB, strip(name), strip(phone), strip(comment))
    IN  /\ pc = "idle"
        /\ Called("_find", 0, <<>>, NoError, results)
        /\ pc' = "idle"
        /\ UNCHANGED <<contacts, next_id, dirty, opened_path, fs, snapshot, mutated>>
        /\ NoCallHistory

\* PhonebookController._create
Create(name, phone, comment) ==
    LET r == add(PB, strip(name), strip(phone), strip(comment))
    IN  /\ pc = "idle"
        /\ next_id <= MaxId
        /\ SetPB(r.pb)
        /\ Called("_create", 0, <<>>, r.err, <<>>)
        /\ AfterAction(r.err)
        /\ mutated' = (mutated \/ r.err = NoError)
        /\ UNCHANGED <<opened_path, fs, snapshot>>
        /\ NoCallHistory

\* PhonebookController._ask_id: None ("BadId") unless str.isdigit holds of what
\* was typed; int() raises ValueError on a digit that is no decimal digit
ask_id(raw) ==
    LET cid == ParseInt(strip(raw))
    IN  IF ~isdigit(strip(raw)) THEN [ok |-> FALSE, val |-> 0, err |-> "BadId"]
        ELSE IF ~cid.ok THEN [ok |-> FALSE, val |-> 0, err |-> "ValueError"]
        ELSE [ok |-> TRUE, val |-> cid.val, err |-> NoError]

\* PhonebookController._edit
Edit(raw, name, phone, comment) ==
    LET cid == ask_id(raw)
        found == get(PB, cid.val)
        r == update(PB, cid.val, EmptyAsNone(strip(name)), EmptyAsNone(strip(phone)),
                    EmptyAsNone(strip(comment)))
        err == IF ~cid.ok THEN cid.err ELSE IF found.err # NoError THEN found.err ELSE r.err
    IN  /\ pc = "idle"
        /\ IF ~cid.ok
           THEN /\ Called("_edit", 0, <<>>, err, <<>>)
                /\ UNCHANGED <<contacts, next_id, dirty, mutated>>
           ELSE IF found.err # NoError
           THEN /\ Called("_edit", cid.val, <<>>, err, <<>>)
                /\ UNCHANGED <<contacts, next_id, dirty, mutated>>
           ELSE /\ SetPB(r.pb)
                /\ Called("_edit", cid.val, <<>>, err, <<>>)
                /\ mutated' = (mutated \/ r.err = NoError)
        /\ AfterAction(err)
        /\ UNCHANGED <<opened_path, fs, snapshot>>
        /\ NoCallHistory

\* PhonebookController._delete
Delete(raw) ==
    LET cid == ask_id(raw)
        r == delete(PB, cid.val)
        err == IF ~cid.ok THEN cid.err ELSE r.err
    IN  /\ pc = "idle"
        /\ IF ~cid.ok
           THEN /\ Called("_delete", 0, <<>>, err, <<>>)
                /\ UNCHANGED <<contacts, next_id, dirty, mutated>>
           ELSE /\ SetPB(r.pb)
                /\ Called("_delete", cid.val, <<>>, err, <<>>)
                /\ mutated' = (mutated \/ r.err = NoError)
        /\ AfterAction(err)
        /\ UNCHANGED <<opened_path, fs, snapshot>>
        /\ NoCallHistory

\* Ctrl-C at a prompt of an action: run reports it and shows the menu again
Interrupt ==
    /\ pc = "idle"
    /\ Called("interrupt", 0, <<>>, "KeyboardInterrupt", <<>>)
    /\ AfterAction("KeyboardInterrupt")
    /\ UNCHANGED <<contacts, next_id, dirty, opened_path, fs, snapshot, mutated>>
    /\ NoCallHistory

YesTokens == {<<"y">>, <<"y", "e", "s">>, <<CYR_d>>, <<CYR_d, CYR_a>>}

NoTokens == {<<"n">>, <<"n", "o">>, <<CYR_n>>, <<CYR_n, CYR_e, CYR_t>>}

\* mutant: an answer that is no token counts as a no
Exit_other_means_no(answer, path, io) ==
    LET ans == lower(strip(answer))
    IN  /\ pc = "idle"
        /\ IF ~dirty
           THEN /\ Called("exit", 0, <<>>, NoError, <<>>)
                /\ pc' = "ended"
                /\ UNCHANGED <<contacts, next_id, dirty, opened_path, fs, snapshot,
                               mutated>>
           ELSE IF ans \in YesTokens
           THEN /\ SaveEffect(path, io)
                /\ Called("exit", 0, <<answer>>, SaveErr(path, io), <<>>)
                /\ pc' = IF SaveErr(path, io) \in Reported \cup PhonebookErrors
                         THEN "ended" ELSE "raised"
           ELSE /\ Called("exit", 0, <<answer>>, NoError, <<>>)
                /\ pc' = "ended"
                /\ UNCHANGED <<contacts, next_id, dirty, opened_path, fs, snapshot,
                               mutated>>
        /\ NoCallHistory

\* menu item 8 with PhonebookController._maybe_prompt_save: answer is what the
\* user types if asked, path and io are those of the _save a yes leads to; the
\* answer typed is recorded in last.args (empty when nothing was asked)
Exit(answer, path, io) ==
    LET ans == lower(strip(answer))
    IN  /\ pc = "idle"
        /\ IF ~dirty
           THEN /\ Called("exit", 0, <<>>, NoError, <<>>)
                /\ pc' = "ended"
                /\ UNCHANGED <<contacts, next_id, dirty, opened_path, fs, snapshot,
                               mutated>>
           ELSE IF ans \in YesTokens
           THEN /\ SaveEffect(path, io)
                /\ Called("exit", 0, <<answer>>, SaveErr(path, io), <<>>)
                /\ pc' = IF SaveErr(path, io) \in Reported \cup PhonebookErrors
                         THEN "ended" ELSE "raised"
           ELSE IF ans \in NoTokens
           THEN /\ Called("exit", 0, <<answer>>, NoError, <<>>)
                /\ pc' = "ended"
                /\ UNCHANGED <<contacts, next_id, dirty, opened_path, fs, snapshot,
                               mutated>>
           ELSE /\ Called("exit", 0, <<answer>>, NoError, <<>>)
                /\ pc' = "idle"
                /\ UNCHANGED <<contacts, next_id, dirty, opened_path, fs, snapshot,
                               mutated>>
        /\ NoCallHistory

\* what the user types for _create: a name to trim, a name with a tab inside,
\* an empty name
CreateInputs ==
    {<<<<SP, "a">>, P1, <<>>>>, <<<<"a", TAB, "b">>, P1, <<>>>>, <<<<SP>>, P1, <<>>>>}

\* what the user types for _edit: a name (the stored one, for a contact named
\* "a"), a phone outside the grammar
EditInputs ==
    {<<<<"a">>, <<>>, <<>>>>, <<<<>>, <<"1", "2", "3", "4">>, <<>>>>}

\* an id typed as decimal digits, a letter, a superscript two
IdInputs == {IntStr(i) : i \in 1..MaxId} \cup {<<"x">>, <<SUP2>>}

\* what the user types for _find: a query, or no query and a name filter
FindInputs == {<<<<"A">>, <<>>, <<>>, <<>>>>, <<<<>>, <<"a">>, <<>>, <<>>>>}

\* what the user answers on Exit: yes and no tokens (to trim, to lowercase, in
\* Cyrillic), another word, nothing
AnswerArgs ==
    {<<"y">>, <<SP, "Y", "E", "S">>, <<CYR_D, CYR_a>>, <<"n">>, <<CYR_n, CYR_e, CYR_t>>,
     <<"x">>, <<>>}

\* an answer on Exit with the path typed and the outcome of the file operations
\* of the _save a yes leads to: every path and outcome for the answer y
ExitInputs ==
    {<<<<"y">>, path, io>> : path \in PathArgs, io \in IoArgs}
        \cup {<<answer, BOOK, "ok">> : answer \in AnswerArgs}

\* the files found at start: book.txt is absent or holds a line whose id is no number
FilesAtStart ==
    {[p \in FilePaths |-> IF p = FOLDER THEN Directory ELSE f] :
        f \in {Absent, File(<<"x", TAB, "a", TAB>> \o P1 \o <<TAB, LF>>)}}

InitApp ==
    /\ contacts = NewPhonebook.contacts
    /\ next_id = NewPhonebook.next_id
    /\ dirty = NewPhonebook.dirty
    /\ opened_path = NoPath
    /\ fs \in FilesAtStart
    /\ last = [op |-> "init", id |-> 0, args |-> <<>>, err |-> NoError, ret |-> <<>>]
    /\ adds = 0
    /\ replaced = FALSE
    /\ deleted = {}
    /\ written = <<>>
    /\ snapshot = <<>>
    /\ mutated = FALSE
    /\ pc = "idle"
    /\ repo = NewRepository
    /\ repo_last = [err |-> NoError, ret |-> <<>>]

NextApp ==
    \/ \E path \in PathArgs, io \in IoArgs : Open(path, io)
    \/ \E path \in PathArgs, io \in IoArgs : Save(path, io)
    \/ List
    \/ \E a \in CreateInputs : Create(a[1], a[2], a[3])
    \/ \E a \in FindInputs : Find(a[1], a[2], a[3], a[4])
    \/ \E raw \in IdInputs, a \in EditInputs : Edit(raw, a[1], a[2], a[3])
    \/ \E raw \in IdInputs : Delete(raw)
    \/ Interrupt
    \/ \E a \in ExitInputs : Exit(a[1], a[2], a[3])

SpecApp == InitApp /\ [][NextApp]_vars

----------------------------------------------------------------------------
(* Properties of the Phonebook's methods, checked under Spec.              *)

State == <<contacts, next_id, dirty>>

\* a name that is empty or whitespace-only (None counts as empty)
BlankName(name) == \A i \in 1..Len(OrEmpty(name)) : name[i] \in Whitespace

\* a phone that, trimmed, is in the phone grammar
GrammarPhone(phone) == PhoneCore(strip(OrEmpty(phone)))

\* C1: without replace_all, the k-th successful add returns the id k (so ids start
\* at 1, strictly increase, and an id freed by delete is not handed out again);
\* the directory is dirty after every successful add.
C1_KthAddReturnsK ==
    /\ ~replaced => next_id = adds + 1
    /\ (last.op = "add" /\ last.err = NoError) =>
           /\ dirty
           /\ ~replaced => last.ret[1].id = adds

\* C1 witness: the second successful add, after a delete freed an id
C1_Witness ==
    /\ ~replaced /\ last.op = "add" /\ last.err = NoError
    /\ adds = 2 /\ deleted # {}

\* the name, phone and comment arguments of the last call
ArgName(l) == l.args[1]

ArgPhone(l) == l.args[2]

ArgComment(l) == l.args[3]

\* an add or update call that was given an invalid name or an invalid phone
GivenInvalid(l) ==
    \/ l.op = "add" /\ (BlankName(ArgName(l)) \/ ~GrammarPhone(ArgPhone(l)))
    \/ /\ l.op = "update"
       /\ \/ ArgName(l) # None /\ BlankName(ArgName(l))
          \/ ArgPhone(l) # None /\ ~GrammarPhone(ArgPhone(l))

\* C2 as stated: an add or an update given an invalid name or phone fails with
\* ValidationError and leaves contacts, counter and dirty flag unchanged.
C2_InvalidFieldsAlwaysValidationError ==
    [][GivenInvalid(last') => (last'.err = "ValidationError" /\ UNCHANGED State)]_vars

\* C2 amended: an add, or an update of an id that is present, given an invalid name
\* or phone fails with ValidationError and leaves contacts, counter and dirty flag
\* unchanged; an update of an absent id leaves them unchanged too.
C2_InvalidFieldsLeaveState ==
    [][GivenInvalid(last') =>
          /\ UNCHANGED State
          /\ (last'.op = "add" \/ DictHas(contacts, last'.id))
                 => last'.err = "ValidationError"]_vars

\* C2 witness: a rejected update of a present contact, in a clean directory
C2_Witness ==
    /\ last.op = "update" /\ last.err = "ValidationError"
    /\ DictHas(contacts, last.id) /\ ~dirty

\* C3: the counter is above every stored id, every entry is stored under its own
\* id, and no two entries share a key.
C3_CounterAboveIds ==
    \A i \in 1..Len(contacts) :
        /\ contacts[i].key < next_id
        /\ contacts[i].val.id = contacts[i].key
        /\ \A j \in 1..Len(contacts) : contacts[j].key = contacts[i].key => j = i

\* C3 witness: replace_all given a list whose ids are out of order
C3_Witness ==
    /\ last.op = "replace_all" /\ Len(contacts) = 2
    /\ contacts[1].key > contacts[2].key

\* C7: a delete or an update of an absent id fails with ContactNotFound and leaves
\* contacts, counter and dirty flag unchanged.
C7_AbsentIdLeavesState ==
    [][(last'.op \in {"delete", "update"} /\ ~DictHas(contacts, last'.id))
          => (last'.err = "ContactNotFound" /\ UNCHANGED State)]_vars

\* C7 witness: a delete of an absent id in a clean, non-empty directory
C7_Witness ==
    /\ last.op = "delete" /\ last.err = "ContactNotFound"
    /\ contacts # <<>> /\ ~dirty

----------------------------------------------------------------------------
(* Properties of the handlers, checked under SpecApp.                      *)

\* C4: in every state reached through open, save, add, update and delete, every
\* stored contact has a name that is not empty after trimming and a phone that
\* matches the phone grammar.
C4_StoredContactsValid ==
    \A i \in 1..Len(contacts) :
        /\ ~BlankName(contacts[i].val.name)
        /\ GrammarPhone(contacts[i].val.phone)

\* C5: whenever the dirty flag is false, the directory's contacts are those of
\* the last loaded or successfully saved snapshot (the empty one at start).
C5_CleanMeansSnapshot == ~dirty => list(PB) = snapshot

\* C5 witness: a directory of two contacts, clean after a successful save
C5_Witness ==
    /\ last.op = "_save" /\ last.err = NoError
    /\ ~dirty /\ Len(contacts) = 2 /\ list(PB) = snapshot

\* C6 as stated: whenever the dirty flag is true, the directory's contacts differ
\* from the last loaded or saved snapshot.
C6_DirtyMeansDiffers == dirty => list(PB) # snapshot

\* C6 amended: the dirty flag is true exactly when an add, update or delete has
\* succeeded since the last open or successful save, whether or not the contacts
\* still differ from the snapshot.
C6_DirtyIffMutated == dirty <=> mutated

\* C6 witness: a delete has brought the contacts back to the snapshot's, and the
\* directory is dirty
C6_Witness ==
    /\ last.op = "_delete" /\ last.err = NoError
    /\ dirty /\ mutated /\ Len(snapshot) = 1 /\ list(PB) = snapshot

\* C12: an Open whose load fails with StorageError (a directory at the path, an id
\* that is no number, a read error) leaves contacts, next-id counter, dirty flag
\* and opened path as they were.
C12_FailedOpenLeavesState ==
    [][(last'.op = "_open" /\ last'.err = "StorageError")
          => UNCHANGED <<contacts, next_id, dirty, opened_path>>]_vars

\* C12 witness: a dirty directory bound to book.txt, after an Open of the
\* directory folder.txt failed
C12_Witness ==
    /\ last.op = "_open" /\ last.err = "StorageError" /\ last.args = <<FOLDER>>
    /\ dirty /\ contacts # <<>> /\ opened_path = BOOK

\* a _save ran: from the menu, or after the answer yes on Exit
SaveRan(l) ==
    \/ l.op = "_save"
    \/ l.op = "exit" /\ l.args # <<>> /\ lower(strip(l.args[1])) \in YesTokens

\* C13: a Save that fails (path rejected, write raises) leaves the dirty flag and
\* the contacts as they were; a Save makes the directory clean only with the file
\* holding the text of the current contacts.
C13_FailedSaveKeepsFlag ==
    [][SaveRan(last')
          => /\ contacts' = contacts
             /\ last'.err # NoError => dirty' = dirty
             /\ last'.err = NoError
                   => ~dirty' /\ fs'[opened_path'] = File(SaveText(list(PB)))]_vars

\* C13 witness: a dirty directory after a Save whose write failed
C13_Witness ==
    /\ last.op = "_save" /\ last.err = "StorageError"
    /\ dirty /\ contacts # <<>> /\ opened_path = BOOK /\ fs[BOOK] = Absent

\* C14: no error ends the session: whatever an action raises, run goes back to
\* the menu.
C14_NoErrorEndsSession == pc # "raised"

\* C15: Exit on a clean directory ends the loop without asking; on a dirty one
\* the user is asked, a yes token runs a save, a no token ends the loop without
\* saving, any other answer keeps the loop going with state and flag unchanged.
C15_ExitAsksWhenDirty ==
    [][last'.op = "exit"
          => IF ~dirty
             THEN /\ last'.args = <<>> /\ pc' = "ended"
                  /\ UNCHANGED <<contacts, next_id, dirty, opened_path, fs>>
             ELSE /\ last'.args # <<>>
                  /\ LET ans == lower(strip(last'.args[1]))
                     IN  IF ans \in {<<"y">>, <<"y", "e", "s">>, <<CYR_d>>, <<CYR_d, CYR_a>>}
                         THEN /\ opened_path' # NoPath
                              /\ pc' # "idle"
                              /\ last'.err = NoError
                                    => ~dirty' /\ fs'[opened_path'] = File(SaveText(list(PB)))
                         ELSE IF ans \in {<<"n">>, <<"n", "o">>, <<CYR_n>>,
                                          <<CYR_n, CYR_e, CYR_t>>}
                         THEN /\ pc' = "ended"
                              /\ UNCHANGED <<contacts, next_id, dirty, opened_path, fs>>
                         ELSE /\ pc' = "idle"
                              /\ UNCHANGED <<contacts, next_id, dirty, opened_path, fs>>]_vars

\* C15 witness: a dirty directory, still at the menu after Exit was answered with
\* something that is no token
C15_Witness ==
    /\ last.op = "exit" /\ last.args = <<<<"x">>>>
    /\ pc = "idle" /\ dirty /\ contacts # <<>>

----------------------------------------------------------------------------
(* The storage alone: a list of contacts is saved to a path and loaded     *)
(* back.  The lists are those Phonebook.add and Phonebook.update produce:  *)
(* names, phones and comments that went through the validation.            *)

\* Phonebook.add's contact for a name, a phone and a comment, under a given id
Added(id, name, phone, comment) ==
    Contact(id, validate_name(name).val, validate_phone(phone).val, strip(comment))

\* contacts with plain fields, with an inner space, with an empty comment, with a
\* two-digit id; and contacts with a tab or a line break inside a name or a comment
StorageContacts ==
    {Added(1, <<"a">>, P1, <<>>), Added(2, <<SP, "a", SP, "b">>, P2, <<"c", SP>>),
     Added(12, <<"B">>, P1, <<>>),
     Added(1, <<"a", TAB, "b">>, P1, <<>>), Added(1, <<"a", LF, "b">>, P1, <<>>),
     Added(2, <<"a", CR, "b">>, P1, <<>>), Added(2, <<"a">>, P1, <<"c", LF, "c">>),
     Added(1, <<"a">>, P1, <<"c", TAB, "c">>)}

RECURSIVE SeqsUpTo(_, _)
SeqsUpTo(S, n) ==
    IF n = 0 THEN {<<>>}
    ELSE LET shorter == SeqsUpTo(S, n - 1)
         IN  shorter \cup {Append(q, x) : q \in shorter, x \in S}

StorageLists == SeqsUpTo(StorageContacts, MaxLoad)

StorageSave(cs) ==
    LET r == save(fs[BOOK], cs, "ok")
    IN  /\ fs' = [fs EXCEPT ![BOOK] = r.file]
        /\ snapshot' = cs
        /\ Called("TxtStorage.save", 0, <<>>, r.err, <<>>)
        /\ UNCHANGED <<pc, contacts, next_id, dirty, opened_path, adds, replaced, deleted,
                       written, mutated>>

StorageLoad ==
    LET r == load(fs[BOOK], "ok")
    IN  /\ Called("TxtStorage.load", 0, <<>>, r.err, r.ret)
        /\ UNCHANGED <<pc, contacts, next_id, dirty, opened_path, fs, adds, replaced,
                       deleted, written, snapshot, mutated>>

InitStorage ==
    /\ contacts = NewPhonebook.contacts
    /\ next_id = NewPhonebook.next_id
    /\ dirty = NewPhonebook.dirty
    /\ opened_path = NoPath
    /\ fs = [p \in {BOOK} |-> Absent]
    /\ last = [op |-> "init", id |-> 0, args |-> <<>>, err |-> NoError, ret |-> <<>>]
    /\ adds = 0
    /\ replaced = FALSE
    /\ deleted = {}
    /\ written = <<>>
    /\ snapshot = <<>>
    /\ mutated = FALSE
    /\ pc = "idle"
    /\ repo = NewRepository
    /\ repo_last = [err |-> NoError, ret |-> <<>>]

NextStorage ==
    \/ \E cs \in StorageLists : StorageSave(cs)
    \/ StorageLoad

SpecStorage == InitStorage /\ [][NextStorage]_vars

\* a str without a tab and without a line break
Plain(str) == \A i \in 1..Len(str) : str[i] \notin {TAB, LF, CR}

PlainList(cs) == \A i \in 1..Len(cs) : Plain(cs[i].name) /\ Plain(cs[i].comment)

\* C10 as stated: a load after a save returns the list that was saved, whatever
\* characters the names and comments hold inside.
C10_RoundTripAnyCharacters ==
    last.op = "TxtStorage.load" => (last.err = NoError /\ last.ret = snapshot)

\* C10 amended: a load after a save returns the list that was saved (same length,
\* order, ids, names, phones, comments) when no name and no comment holds a tab or
\* a line break.
C10_RoundTripPlain ==
    (last.op = "TxtStorage.load" /\ PlainList(snapshot))
        => (last.err = NoError /\ last.ret = snapshot)

\* C10 witness: two contacts, their ids not in order, one with an inner space in
\* its name and one with an empty comment, loaded back
C10_Witness ==
    /\ last.op = "TxtStorage.load" /\ last.err = NoError
    /\ Len(snapshot) = 2 /\ PlainList(snapshot)
    /\ snapshot[1].id > snapshot[2].id
    /\ snapshot[1].name = <<"a", SP, "b">> /\ snapshot[2].comment = <<>>
    /\ last.ret = snapshot

----------------------------------------------------------------------------
(* TxtStorage.save step by step, on the target book.txt: the temporary     *)
(* sibling file is opened (created or truncated), written, and moved over  *)
(* the target; any step can fail, and the process can be killed between    *)
(* two steps.  snapshot is the list being saved.                           *)

\* mutant: the text is written to the target itself
tmp_path_is_target(path) == path

\* self._path.with_suffix(self._path.suffix + ".tmp"): book.txt.tmp for book.txt
tmp_path(path) == [stem |-> path.stem, suffix |-> path.suffix \o <<".", "t", "m", "p">>]

SavePaths == {BOOK, tmp_path(BOOK)}

\* the lists saved: the contacts of two adds, in any order, with repetitions
SaveLists == SeqsUpTo({Added(1, <<"a">>, P1, <<>>), Added(2, <<"B">>, P2, <<"c">>)}, MaxLoad)

\* how many characters reached the file when a write failed or was cut short
PartLens(text) == {k \in {1, Len(text) - 1} : 0 < k /\ k < Len(text)}

SaveFrame ==
    UNCHANGED <<contacts, next_id, dirty, opened_path, adds, replaced, deleted, written,
                mutated>>

\* _ensure_parent and the lines of the text; mkdir may raise OSError
SaveBegin(cs, io) ==
    /\ pc = "idle"
    /\ snapshot' = cs
    /\ IF io = "ok"
       THEN pc' = "save:open" /\ Called("save:begin", 0, <<>>, NoError, <<>>)
       ELSE pc' = "idle" /\ Called("save:begin", 0, <<>>, "OSError", <<>>)
    /\ UNCHANGED fs
    /\ SaveFrame

\* write_text opens the temporary file for writing: it is created or truncated
SaveOpenTmp(io) ==
    /\ pc = "save:open"
    /\ IF io = "ok"
       THEN /\ fs' = [fs EXCEPT ![tmp_path(BOOK)] = File(<<>>)]
            /\ pc' = "save:write"
            /\ Called("save:open", 0, <<>>, NoError, <<>>)
       ELSE /\ UNCHANGED fs
            /\ pc' = "idle"
            /\ Called("save:open", 0, <<>>, "StorageError", <<>>)
    /\ UNCHANGED snapshot
    /\ SaveFrame

\* write_text writes the text: all of it, or k characters before an OSError
SaveWriteTmp(k) ==
    LET text == SaveText(snapshot)
    IN  /\ pc = "save:write"
        /\ fs' = [fs EXCEPT ![tmp_path(BOOK)] = File(SubSeq(text, 1, k))]
        /\ IF k = Len(text)
           THEN pc' = "save:replace" /\ Called("save:write", 0, <<>>, NoError, <<>>)
           ELSE pc' = "idle" /\ Called("save:write", 0, <<>>, "StorageError", <<>>)
        /\ UNCHANGED snapshot
        /\ SaveFrame

\* tmp_path.replace(self._path): one rename, or an OSError that leaves both files
SaveReplace(io) ==
    /\ pc = "save:replace"
    /\ IF io = "ok"
       THEN /\ fs' = [p \in DOMAIN fs |->
                        IF p = BOOK THEN fs[tmp_path(BOOK)]
                        ELSE IF p = tmp_path(BOOK) THEN Absent ELSE fs[p]]
            /\ Called("save:replace", 0, <<>>, NoError, <<>>)
       ELSE /\ UNCHANGED fs
            /\ Called("save:replace", 0, <<>>, "StorageError", <<>>)
    /\ pc' = "idle"
    /\ UNCHANGED snapshot
    /\ SaveFrame

\* the process is killed inside save; a write in progress is cut after k characters
SaveKilled(k) ==
    /\ pc \in {"save:open", "save:write", "save:replace"}
    /\ IF pc = "save:write"
       THEN fs' = [fs EXCEPT ![tmp_path(BOOK)] = File(SubSeq(SaveText(snapshot), 1, k))]
       ELSE UNCHANGED fs
    /\ pc' = "killed"
    /\ Called("save:killed", 0, <<>>, NoError, <<>>)
    /\ UNCHANGED snapshot
    /\ SaveFrame

InitSave ==
    /\ contacts = NewPhonebook.contacts
    /\ next_id = NewPhonebook.next_id
    /\ dirty = NewPhonebook.dirty
    /\ opened_path = NoPath
    /\ fs = [p \in SavePaths |-> Absent]
    /\ last = [op |-> "init", id |-> 0, args |-> <<>>, err |-> NoError, ret |-> <<>>]
    /\ adds = 0
    /\ replaced = FALSE
    /\ deleted = {}
    /\ written = <<>>
    /\ snapshot = <<>>
    /\ mutated = FALSE
    /\ pc = "idle"
    /\ repo = NewRepository
    /\ repo_last = [err |-> NoError, ret |-> <<>>]

NextSave ==
    \/ \E cs \in SaveLists, io \in {"ok", "MkdirError"} : SaveBegin(cs, io)
    \/ \E io \in {"ok", "OSError"} : SaveOpenTmp(io)
    \/ \E k \in PartLens(SaveText(snapshot)) \cup {Len(SaveText(snapshot))} : SaveWriteTmp(k)
    \/ \E io \in {"ok", "OSError"} : SaveReplace(io)
    \/ \E k \in PartLens(SaveText(snapshot)) \cup {0} : SaveKilled(k)

SpecSave == InitSave /\ [][NextSave]_vars

\* C11: no step of a save, failed or killed ones included, leaves the target file
\* partially written: a step leaves the target as it was, or puts the complete
\* serialization of the list being saved in its place.
C11_TargetWholeOrUntouched ==
    [][\/ fs'[BOOK] = fs[BOOK]
       \/ /\ fs'[BOOK] = File(SaveText(snapshot))
          /\ snapshot' = snapshot]_vars

\* C11 witness: the process was killed between the write and the replace; the
\* temporary file holds the new text, the target its previous content
C11_Witness ==
    /\ pc = "killed"
    /\ fs[tmp_path(BOOK)] = File(SaveText(snapshot))
    /\ Len(snapshot) = 2
    /\ fs[BOOK].kind = "file" /\ fs[BOOK] # File(SaveText(snapshot))

----------------------------------------------------------------------------
(* The caller and the Contact objects.  Contact is a plain dataclass       *)
(* (not frozen); get, add, update, list and the searches return the stored *)
(* objects themselves and replace_all stores the objects it is given, so   *)
(* the caller's reference to a contact that is still stored is a reference *)
(* to the directory's own object.                                          *)

\* what the caller assigns to the name of a contact it holds
FieldValues == {<<>>, <<"B">>}

\* c = pb.get(contact_id); c.name = value: the assignment is to the stored object
SetName(contact_id, value) ==
    LET r == get(PB, contact_id)
    IN  /\ r.err = NoError
        /\ contacts' = [contacts EXCEPT ![DictIndex(contacts, contact_id)].val.name = value]
        /\ Called("setattr", contact_id, <<value>>, NoError, <<>>)
        /\ UNCHANGED <<pc, next_id, dirty, opened_path, fs, adds, replaced, deleted,
                       written, snapshot, mutated>>

\* the calls that hand out or take in Contact objects, and the caller's assignment
NextAlias ==
    \/ \E cs \in LoadLists : CallReplaceAll(cs)
    \/ \E a \in AddArgs : CallAdd(a[1], a[2], a[3])
    \/ \E id \in IdArgs : CallGet(id)
    \/ CallList
    \/ \E id \in IdArgs, value \in FieldValues : SetName(id, value)

SpecAlias == Init /\ [][NextAlias]_vars

\* C16: after the caller modifies a field of a Contact it got from the directory,
\* the stored contact for that id, the result of list() and the dirty flag are
\* the same as before the modification.
C16_CallerCannotChangeDirectory ==
    [][last'.op = "setattr"
          => /\ contacts' = contacts
             /\ dirty' = dirty
             /\ list([PB EXCEPT !.contacts = contacts']) = list(PB)]_vars

----------------------------------------------------------------------------
(* The reading methods of Phonebook (get, list, search, search_by_fields)  *)
(* over the directories that replace_all, add, a renaming update and       *)
(* delete produce.                                                         *)

\* queries: blank, one to lowercase, one to trim, one found in comments only, one
\* of two characters found in a phone
SearchQueries == {<<SP>>, <<"A">>, <<SP, "B">>, <<"C">>, <<"1", "2">>}

\* filters: all omitted, all blank, a name, a name and a phone, a name and a
\* comment that are not found together
FieldFilters ==
    {<<None, None, None>>, <<<<>>, <<SP>>, <<>>>>, <<<<"A">>, None, None>>,
     <<<<"b">>, <<"2">>, None>>, <<<<"a">>, None, <<"c">>>>}

\* update calls that rename a contact
RenameArgs == {<<<<SP, "B", SP>>, None, None>>}

CallSearchByFields(name, phone, comment) ==
    /\ Called("search_by_fields", 0, <<name, phone, comment>>, NoError,
              search_by_fields(PB, name, phone, comment))
    /\ UNCHANGED <<pc, contacts, next_id, dirty, opened_path, fs, adds, replaced, deleted,
                   written, snapshot, mutated>>

NextRead ==
    \/ \E cs \in LoadLists : CallReplaceAll(cs)
    \/ \E a \in AddArgs : CallAdd(a[1], a[2], a[3])
    \/ \E id \in IdArgs, a \in RenameArgs : CallUpdate(id, a[1], a[2], a[3])
    \/ \E id \in IdArgs : CallDelete(id)
    \/ \E id \in IdArgs : CallGet(id)
    \/ CallList
    \/ \E q \in SearchQueries : CallSearch(q)
    \/ \E f \in FieldFilters : CallSearchByFields(f[1], f[2], f[3])

SpecRead == Init /\ [][NextRead]_vars

\* q occurs in s as a run of consecutive characters
Occurs(q, s) == \E i \in 1..Len(s), j \in 1..Len(s) : i <= j /\ SubSeq(s, i, j) = q

\* the stored contacts, as a set
Stored == {contacts[i].val : i \in 1..Len(contacts)}

\* the elements of a result, as a set
Elems(ret) == {ret[i] : i \in 1..Len(ret)}

\* no contact (by id) twice in a result
NoRepeat(ret) == \A i, j \in 1..Len(ret) : ret[i].id = ret[j].id => i = j

\* a result is ordered by lowercased name, then by ascending id
NameIdOrdered(ret) ==
    \A i, j \in 1..Len(ret) :
        i < j => \/ StrLess(lower(ret[i].name), lower(ret[j].name))
                 \/ /\ lower(ret[i].name) = lower(ret[j].name)
                    /\ ret[i].id <= ret[j].id

C18_FieldsExact ==
    [][last'.op = "search_by_fields"
          => LET Q(i) == IF last'.args[i] = None THEN <<>> ELSE lower(strip(last'.args[i]))
             IN  /\ NoRepeat(last'.ret)
                 /\ Elems(last'.ret) =
                        {c \in Stored : /\ Q(1) = <<>> \/ Occurs(Q(1), lower(c.name))
                                        /\ Q(2) = <<>> \/ Occurs(Q(2), lower(c.phone))
                                        /\ Q(3) = <<>> \/ Occurs(Q(3), lower(c.comment))}
                 /\ (Q(1) = <<>> /\ Q(2) = <<>> /\ Q(3) = <<>>)
                       => Len(last'.ret) = Len(contacts)]_vars

\* C18 witness: of two contacts named "a" and "B", both with a 2 in the phone,
\* the filters name "b" and phone "2" return the one named "B"
C18_Witness ==
    /\ last.op = "search_by_fields" /\ last.args = <<<<"b">>, <<"2">>, None>>
    /\ Len(contacts) = 2 /\ Len(last.ret) = 1 /\ last.ret[1].name = <<"B">>
    /\ \A i \in 1..2 : Occurs(<<"2">>, contacts[i].val.phone)

\* C19: the results of search and search_by_fields are ordered by lowercased
\* name and then by ascending id, as list() is.
C19_SearchResultsSorted ==
    last.op \in {"search", "search_by_fields"} => NameIdOrdered(last.ret)

\* C20: list returns every stored contact once, ordered by lowercased name and
\* then by ascending id; list, get, search and search_by_fields leave the
\* mapping, the counter and the dirty flag unchanged.
C20_ListSortedReadOnly ==
    [][/\ last'.op \in {"list", "get", "search", "search_by_fields"}
             => UNCHANGED <<contacts, next_id, dirty>>
       /\ last'.op = "list"
             => /\ Elems(last'.ret) = Stored
                /\ Len(last'.ret) = Len(contacts)
                /\ NoRepeat(last'.ret)
                /\ NameIdOrdered(last'.ret)]_vars

\* C20 witness: list puts the contact named "a" with id 2 before the contact
\* named "B" with id 1, stored in the other order
C20_Witness ==
    /\ last.op = "list" /\ Len(last.ret) = 2
    /\ last.ret[1].name = <<"a">> /\ last.ret[1].id = 2
    /\ last.ret[2].name = <<"B">> /\ last.ret[2].id = 1
    /\ contacts[1].key = 1

----------------------------------------------------------------------------
(* The counter of an empty directory, under Spec.                          *)

\* C21 as stated: whenever the directory holds no contact, its next-id counter
\* is 1, also after adds and deletes that leave it empty.
C21_EmptyMeansCounterOne ==
    contacts = <<>> => next_id = 1

\* C21: an empty directory has the counter 1 when nothing was deleted since the
\* initial state or the last replace_all; emptied by deletes, its counter stays
\* above every id deleted since then, and no delete changes the counter.
C21_EmptyCounter ==
    [][/\ (contacts' = <<>> /\ deleted' = {}) => next_id' = 1
       /\ (contacts' = <<>> /\ deleted' # {}) => \A d \in deleted' : next_id' > d
       /\ last'.op = "delete" => next_id' = next_id]_vars

\* C21 witness: the delete of the only contact, id 1, leaves an empty directory
\* whose counter is 2
C21_Witness ==
    /\ last.op = "delete" /\ last.id = 1 /\ last.err = NoError
    /\ contacts = <<>> /\ next_id = 2

----------------------------------------------------------------------------
(* TxtStorage.load on files that no save wrote: the file holds any of the   *)
(* texts made of up to MaxLines lines, and load reads it.                   *)

MaxLines == 3

\* a full line, a line of 2 fields, a line of 1 field, an id between spaces
\* with a fifth field, an empty line, a line of whitespace, a line whose id is
\* not a number, a line whose id is empty
FileLines ==
    {<<"1", TAB, "a", TAB>> \o P1 \o <<TAB, "c">>,
     <<"2", TAB, "B">>,
     <<"1", "2">>,
     <<SP, "2", SP, TAB, SP, "a", TAB>> \o P2 \o <<TAB, TAB, "c">>,
     <<>>,
     <<SP, TAB>>,
     <<"x", TAB, "a", TAB>> \o P1 \o <<TAB>>,
     <<TAB, "a">>}

FileTexts == {join(<<LF>>, lines) : lines \in SeqsUpTo(FileLines, MaxLines)}

InitLoad ==
    /\ contacts = NewPhonebook.contacts
    /\ next_id = NewPhonebook.next_id
    /\ dirty = NewPhonebook.dirty
    /\ opened_path = NoPath
    /\ \E text \in FileTexts : fs = [p \in {BOOK} |-> File(text)]
    /\ last = [op |-> "init", id |-> 0, args |-> <<>>, err |-> NoError, ret |-> <<>>]
    /\ adds = 0
    /\ replaced = FALSE
    /\ deleted = {}
    /\ written = <<>>
    /\ snapshot = <<>>
    /\ mutated = FALSE
    /\ pc = "idle"
    /\ repo = NewRepository
    /\ repo_last = [err |-> NoError, ret |-> <<>>]

SpecLoad == InitLoad /\ [][StorageLoad]_vars

\* the lines of the file that are not blank
NonBlankLines == SelectSeq(splitlines(fs[BOOK].text), LAMBDA line : strip(line) # <<>>)

\* the k-th tab-separated field of a line, empty when the line has fewer fields
Field(line, k) ==
    LET parts == split(line, TAB) IN IF k <= Len(parts) THEN parts[k] ELSE <<>>

\* C22: when a non-blank line of the file has a first field that is not an
\* integer, load fails with StorageError and returns nothing, wherever the line
\* stands; otherwise load returns one contact per non-blank line, in the order
\* of the lines, with the fields trimmed and the missing fields empty.
C22_LoadAllOrNothing ==
    last.op = "TxtStorage.load"
        => LET ls == NonBlankLines
           IN  IF \E i \in 1..Len(ls) : ~ParseInt(Field(ls[i], 1)).ok
               THEN last.err = "StorageError" /\ last.ret = <<>>
               ELSE /\ last.err = NoError
                    /\ Len(last.ret) = Len(ls)
                    /\ \A i \in 1..Len(ls) :
                          last.ret[i] = [id |-> ParseInt(Field(ls[i], 1)).val,
                                         name |-> strip(Field(ls[i], 2)),
                                         phone |-> strip(Field(ls[i], 3)),
                                         comment |-> strip(Field(ls[i], 4))]

\* C22 witness: the bad id stands on the last of three lines, after a full line
\* and a line of 2 fields, and nothing is returned
C22_Witness ==
    /\ last.op = "TxtStorage.load" /\ last.err = "StorageError" /\ last.ret = <<>>
    /\ Len(NonBlankLines) = 3
    /\ Field(NonBlankLines[1], 1) = <<"1">> /\ Field(NonBlankLines[2], 1) = <<"2">>
    /\ Field(NonBlankLines[3], 1) = <<"x">>

----------------------------------------------------------------------------
(* A path that does not exist, under SpecStorage.                          *)

\* C23 as stated: the load of a path that does not exist returns an empty
\* list and no error; a save to that path creates a file from which a load
\* returns the saved contacts, whatever they are.
C23_AbsentThenSavedAny ==
    [][/\ (fs[BOOK] = Absent /\ last'.op = "TxtStorage.load")
             => (last'.err = NoError /\ last'.ret = <<>>)
       /\ (fs[BOOK] = Absent /\ last'.op = "TxtStorage.save")
             => /\ last'.err = NoError /\ fs'[BOOK].kind = "file"
                /\ load(fs'[BOOK], "ok") = [err |-> NoError, ret |-> snapshot']]_vars

\* C23: the load of a path that does not exist returns an empty list and no
\* error and creates nothing; a save to that path creates a file from which a
\* load returns the saved contacts when no name and no comment holds a tab or a
\* line break.
C23_AbsentThenSavedPlain ==
    [][/\ (fs[BOOK] = Absent /\ last'.op = "TxtStorage.load")
             => (last'.err = NoError /\ last'.ret = <<>> /\ fs'[BOOK] = Absent)
       /\ (fs[BOOK] = Absent /\ last'.op = "TxtStorage.save")
             => /\ last'.err = NoError /\ fs'[BOOK].kind = "file"
                /\ PlainList(snapshot')
                      => load(fs'[BOOK], "ok") = [err |-> NoError, ret |-> snapshot']]_vars

\* C23 witness: book.txt does not exist and a load of it has returned an empty
\* list
C23_Witness ==
    /\ fs[BOOK] = Absent
    /\ last.op = "TxtStorage.load" /\ last.err = NoError /\ last.ret = <<>>

----------------------------------------------------------------------------
(* The phone grammar: add on the empty directory and update of id 1 are    *)
(* given each phone of PhoneInputs.                                        *)

\* the phones of test_parametrized_bad_phone, no phone at all, and every head
\* followed by every body and every tail
PhoneInputs ==
    LET heads == {<<>>, <<SP>>, <<"+">>, <<SP, "+">>, <<"(">>, <<"a">>, <<AR3>>}
        bodies == {<<"2", "3", "4", "5">>, <<"2", "3", "4", "5", "6">>,
                   <<"2", "-", "(", SP, ")">>, <<"2", "a", "4", "5", "6">>,
                   <<"2", "3", "+", "5", "6">>, <<"2", TAB, "4", "5", "6">>}
        tails == {<<>>, <<SP>>, <<"7">>, <<LF>>}
    IN  {<<>>, <<SP>>, <<"a", "b", "c">>, <<"+">>, <<"(", ")">>, <<"1", "2", "3", "4">>,
         None}
            \cup {h \o b \o t : h \in heads, b \in bodies, t \in tails}

AddPhone(phone) ==
    /\ contacts = <<>>
    /\ CallAdd(<<"a">>, phone, <<>>)

UpdatePhone(phone) == CallUpdate(1, None, phone, None)

NextPhone ==
    \/ \E phone \in PhoneInputs : AddPhone(phone)
    \/ \E phone \in PhoneInputs \ {None} : UpdatePhone(phone)

SpecPhone == Init /\ [][NextPhone]_vars

\* a trimmed phone of the grammar: '+' or a digit, then 5 or more characters,
\* each a digit, '-', a space, '(' or ')'; a digit is any decimal digit
InGrammar(t) ==
    /\ Len(t) >= 1 + 5
    /\ t[1] = "+" \/ t[1] \in Digits \cup {AR3}
    /\ \A i \in 2..Len(t) : t[i] \in Digits \cup {AR3} \/ t[i] \in {"-", SP, "(", ")"}

\* what C24 says of a call given a phone: accepted and stored trimmed when the
\* trimmed phone is of the grammar, ValidationError and no change otherwise
PhoneOutcome(l, cs) ==
    LET t == strip(OrEmpty(l.args[2]))
    IN  IF InGrammar(t)
        THEN /\ l.err = NoError
             /\ l.ret[1].phone = t
             /\ DictGet(cs, l.ret[1].id).phone = t
        ELSE l.err = "ValidationError" /\ UNCHANGED State

\* C24 as stated: every add and every update given a phone accepts it exactly
\* when it is of the grammar after trimming, and rejects any other with
\* ValidationError.
C24_PhoneGrammarAnyCall ==
    [][(last'.op \in {"add", "update"}) => PhoneOutcome(last', contacts')]_vars

\* C24: an add, and an update of an id that is present, accept a phone exactly
\* when it is of the grammar after trimming and store it trimmed; they reject
\* any other with ValidationError; an update of an absent id fails with
\* ContactNotFound whatever the phone.
C24_PhoneGrammar ==
    [][/\ (last'.op = "add" \/ (last'.op = "update" /\ DictHas(contacts, last'.id)))
             => PhoneOutcome(last', contacts')
       /\ (last'.op = "update" /\ ~DictHas(contacts, last'.id))
             => (last'.err = "ContactNotFound" /\ UNCHANGED State)]_vars

\* C24 witness: an update has replaced the phone by " +2-( ) " trimmed, a phone
\* of exactly 6 characters with no digit after the second
C24_Witness ==
    /\ last.op = "update" /\ last.err = NoError
    /\ last.args[2] = <<SP, "+", "2", "-", "(", SP, ")", SP>>
    /\ DictGet(contacts, 1).phone = <<"+", "2", "-", "(", SP, ")">>

----------------------------------------------------------------------------
(* Unsaved changes and the bound path in the menu loop, under SpecApp.      *)

\* C25: when run has returned after the answer yes on Exit, the directory is
\* clean and the file of the bound path holds the text of the current contacts.
C25_YesExitEndsSaved ==
    (pc = "ended" /\ last.op = "exit" /\ SaveRan(last))
        => /\ ~dirty
           /\ opened_path \in FilePaths
           /\ fs[opened_path] = File(SaveText(list(PB)))

\* C26: the bound path, whenever set, has the suffix .txt; a Save whose path is
\* rejected for its suffix leaves the path unbound, so that the next Save asks
\* for a path again.
C26_OpenedPathIsTxt ==
    [][/\ opened_path' # NoPath => ~NotTxt(opened_path')
       /\ (SaveRan(last') /\ last'.err = "NotTxt") => opened_path' = NoPath]_vars

\* C27: a step of the menu loop from a dirty directory keeps the contacts and
\* the flag, or is a change the user made (the directory stays dirty), or saves
\* the contacts, or is an Exit whose save prompt was answered; in particular no
\* Open replaces the contacts of a dirty directory and marks it clean.  (A step
\* in which an error leaves run is C14's matter and is not counted here.)
C27_NoSilentDiscard ==
    [][dirty => \/ dirty' /\ contacts' = contacts
                \/ dirty' /\ last'.op \in {"_create", "_edit", "_delete"}
                \/ SaveRan(last') /\ last'.err = NoError
                \/ last'.op = "exit" /\ last'.args # <<>>
                \/ pc' = "raised"]_vars

----------------------------------------------------------------------------
(* The Phonebook and the repository module side by side: each call is made *)
(* on both with the same arguments.                                         *)

\* the outcome of the two calls and the new states
CalledBoth(op, id, args, r, q) ==
    /\ SetPB(r.pb)
    /\ last' = [op |-> op, id |-> id, args |-> args, err |-> r.err, ret |-> r.ret]
    /\ repo' = q.state
    /\ repo_last' = [err |-> q.err, ret |-> q.ret]
    /\ UNCHANGED <<pc, opened_path, fs, adds, replaced, deleted, written, snapshot,
                   mutated>>

BothAdd(name, phone, comment) ==
    /\ next_id <= MaxId
    /\ CalledBoth("add", 0, <<name, phone, comment>>,
                  add(PB, name, phone, comment), add_contact(repo, name, phone, comment))

BothUpdate(id, name, phone, comment) ==
    CalledBoth("update", id, <<name, phone, comment>>,
               update(PB, id, name, phone, comment),
               update_contact(repo, id, name, phone, comment))

BothDelete(id) ==
    CalledBoth("delete", id, <<>>, delete(PB, id), delete_contact(repo, id))

BothList ==
    CalledBoth("list", 0, <<>>, Result(PB, NoError, list(PB)),
               RepoResult(repo, NoError, list_contacts(repo)))

NextBoth ==
    \/ \E a \in AddArgs : BothAdd(a[1], a[2], a[3])
    \/ \E id \in IdArgs, a \in UpdateArgs : BothUpdate(id, a[1], a[2], a[3])
    \/ \E id \in IdArgs : BothDelete(id)
    \/ BothList

SpecBoth == Init /\ [][NextBoth]_vars

\* the call of the repository module failed: an exception, None from
\* update_contact, False from delete_contact
RepoFailed ==
    \/ repo_last.err # NoError
    \/ last.op = "update" /\ repo_last.ret = <<>>
    \/ last.op = "delete" /\ repo_last.ret = <<"False">>

\* C28: after every add, update, delete and list made on both, the call has
\* succeeded in both or failed in both, a contact or a list returned is the
\* same, and both hold the same contacts in the same order, the same counter
\* and the same dirty flag.
C28_SameOutcomeAndState ==
    /\ repo.contacts = contacts
    /\ repo.next_id = next_id
    /\ repo.dirty = dirty
    /\ last.op \in {"add", "update", "delete", "list"}
          => /\ (last.err # NoError) <=> RepoFailed
             /\ (last.op # "delete" /\ last.err = NoError) => repo_last.ret = last.ret

\* C28 witness: a delete has succeeded in both after two adds, each holds the
\* contact of id 2 and the counter 3
C28_Witness ==
    /\ last.op = "delete" /\ last.id = 1 /\ last.err = NoError
    /\ repo_last.ret = <<"True">>
    /\ DictKeys(contacts) = {2} /\ repo.contacts = contacts
    /\ repo.next_id = 3 /\ repo.dirty

====
